---------------------------- MODULE Spec2Model ----------------------------
(***************************************************************************)
(* A model of vigilante's two orchestrators:                               *)
(*   - Nightcrawler.crawl (src/vigilante/nightcrawler.py): the per-engine  *)
(*     fetch / parse / liveness-check loop and its thread pool;            *)
(*   - Typhonn.analyze (src/vigilante/typhonn.py): the scan passes over    *)
(*     the scanner's report dictionary, the redirect pass and the risk     *)
(*     aggregation.                                                        *)
(* Python dictionaries are functions whose DOMAIN is the set of keys, so   *)
(* that a missing key is visible.  The HTTP session, the TLS socket and    *)
(* the HTML parser are the environment: their answers are drawn from the   *)
(* small sets defined below.  log() and export_data() (vigilante.utils)    *)
(* write nothing the orchestrators read back and are left out.            *)
(***************************************************************************)
EXTENDS Integers, Sequences, FiniteSets, TLC

VARIABLES
    \* ---- Nightcrawler.crawl ----
    cpc,            \* position of the crawl() call
    check_alive,    \* crawl()'s check_alive argument
    engine_idx,     \* position of `for name, config in search_engines.items()`
    all_results,    \* the dict crawl() builds and returns
    page_results,   \* the list the current engine's parser returned
    task,           \* state of each future of the current ThreadPoolExecutor
    fetched,        \* history: engine name -> outcome of its search request
    parsed,         \* history: engine name -> the list its parser returned
    probe,          \* history: record index -> outcome of its is_alive() request
    \* ---- the ThreadPoolExecutor of crawl(), seen through its counters ----
    ppc,            \* position of the thread that created the pool
    n_records,      \* len(page_results)
    submitted,      \* executor.submit calls made
    work_queue,     \* work items waiting in the executor's queue
    threads,        \* worker threads the executor has started
    busy,           \* worker threads running _check_single
    done,           \* futures that have completed
    \* ---- Typhonn ----
    apc,            \* position of the analyze() call
    detail,         \* Typhonn.detail
    report,         \* Typhonn.report, the one dict __init__ creates
    resp,           \* what the target answered this analyze(): the response `r`,
                    \* its parsed `soup`, and how the TLS handshake ended
    calls,          \* number of analyze() calls started
    trace,          \* history: the passes the current analyze() has run, in order
    returned,       \* history: per analyze() call, what the target answered
                    \* and what the call returned or raised
    \* ---- Typhonn._check_redirect_behavior ----
    rpc,            \* position of the redirect pass
    seen,           \* its local set `seen`
    current,        \* its local `current`
    loc,            \* its local `loc`, the Location of the last response
    hops,           \* iterations of `for _ in range(10)` entered
    passes,         \* number of calls of the pass on this scanner
    requests        \* history: session.get calls the current pass has issued

poolVars == <<ppc, n_records, submitted, work_queue, threads, busy, done>>
crawlVars == <<cpc, check_alive, engine_idx, all_results, page_results, task,
               fetched, parsed, probe, poolVars>>
scanVars == <<apc, detail, report, resp, calls, trace, returned>>
redirVars == <<rpc, seen, current, loc, hops, passes, requests>>
vars == <<crawlVars, scanVars, redirVars>>

-----------------------------------------------------------------------------
(* Bounds of the model *)

\* longest result list a search page yields
MaxRecords == 3

-----------------------------------------------------------------------------
(* Python values *)

EmptyDict == [k \in {} |-> {}]

\* d[k] = v
Put(d, k, v) == [x \in DOMAIN d \cup {k} |-> IF x = k THEN v ELSE d[x]]

\* what session.get does: it raises, or it returns a response with a status
Raised == [kind |-> "exception"]
Status(s) == [kind |-> "response", status_code |-> s]

-----------------------------------------------------------------------------
(* Nightcrawler *)

\* search_engines, in dict (insertion) order
search_engines == <<"Tordex", "Tor66">>

\* config.get("active", True): no entry of search_engines has an "active" key
IsActive(name) == TRUE

ActiveEngines == {search_engines[i] : i \in {j \in 1..Len(search_engines) :
                                                IsActive(search_engines[j])}}

\* status codes a search engine answers with
EngineStatuses == {200, 204, 404, 500}

\* status codes a probed onion site answers with
ProbeStatuses == {200, 404, 499, 500, 503}

\* urlparse(url).netloc or "Unknown"
Domain(url) == IF url = "" THEN "Unknown" ELSE "site.onion"

\* The i-th result block of a Tordex page: <div class="result"> with an
\* optional h5 (title), h6 > a (link text) and p (description).
\* (a missing tag is the empty tuple, a present one holds its text)
TordexBlock(i) ==
    [h5 |-> IF i % 2 = 1 THEN <<"title">> ELSE <<>>,
     a  |-> IF i % 3 = 0 THEN <<>>
            ELSE IF i % 3 = 1 THEN <<"http://site.onion/a">>
                 ELSE <<"http://site.onion/b">>,
     p  |-> IF i % 2 = 0 THEN <<"text">> ELSE <<>>]

\* _parse_tordex: one record per block, absent tags degrade to defaults
_parse_tordex(n) ==
    [i \in 1..n |->
        LET b == TordexBlock(i)
            url_text == IF b.a = <<>> THEN "" ELSE b.a[1]
        IN [title |-> IF b.h5 = <<>> THEN "No Title" ELSE b.h5[1],
            url |-> url_text,
            description |-> IF b.p = <<>> THEN "No Description" ELSE b.p[1],
            domain |-> Domain(url_text)]]

\* _parse_tor66: one record per anchor whose href wraps an onion url
\* ("url.php?u=" and ".onion" in href); the description is the text node
\* after the next <br>, when there is one.
_parse_tor66(n) ==
    [i \in 1..n |->
        LET onion_url == IF i % 2 = 1 THEN "http://site.onion/a"
                                      ELSE "http://site.onion/b"
        IN [title |-> IF i % 2 = 0 THEN "No Title" ELSE "title",
            url |-> onion_url,
            description |-> IF i % 3 = 0 THEN "No Description" ELSE "text",
            domain |-> Domain(onion_url)]]

\* config["parser"]
Parser(name, n) == IF name = "Tordex" THEN _parse_tordex(n) ELSE _parse_tor66(n)

\* The mutant of is_alive: the comparison off by one.
is_alive_le(outcome) ==
    IF outcome.kind = "exception" THEN FALSE ELSE outcome.status_code <= 500

\* is_alive: status_code < 500, False on any exception
is_alive(outcome) ==
    IF outcome.kind = "exception" THEN FALSE ELSE outcome.status_code < 500

\* The mutant of _check_single: a probe that raised leaves the record as it was.
_check_single_skip(result, outcome) ==
    IF outcome.kind = "exception" THEN result
    ELSE Put(result, "alive", is_alive(outcome))

\* _check_single: result["alive"] = self.is_alive(url); return result
_check_single(result, outcome) == Put(result, "alive", is_alive(outcome))

\* what session.get(url, timeout=10, allow_redirects=True) can do for a url:
\* a url with no scheme raises before anything is sent
ProbeOutcomes(url) ==
    IF url = "" THEN {Raised} ELSE {Raised} \cup {Status(s) : s \in ProbeStatuses}

\* ThreadPoolExecutor(max_workers=20)
max_workers == 20

Running == {i \in DOMAIN task : task[i] = "running"}
Queued == {i \in DOMAIN task : task[i] = "queued"}

\* the engine the loop is at
Name == search_engines[engine_idx]

\* the next iteration of the engine loop
NextEngine ==
    /\ engine_idx' = engine_idx + 1
    /\ cpc' = "fetch"

\* crawl(term, check_alive=ca) is called: all_results = {}
CrawlStart(ca) ==
    /\ cpc = "idle"
    /\ cpc' = "fetch"
    /\ check_alive' = ca
    /\ engine_idx' = 1
    /\ all_results' = EmptyDict
    /\ UNCHANGED <<page_results, task, fetched, parsed, probe>>
    /\ UNCHANGED <<scanVars, redirVars, poolVars>>

\* session.get or the parser raises: except Exception -> all_results[name] = []
EngineRaises ==
    /\ cpc = "fetch"
    /\ engine_idx <= Len(search_engines)
    /\ IsActive(Name)
    /\ \E stage \in {"get", "parser"} :
          fetched' = Put(fetched, Name, IF stage = "get" THEN Raised ELSE Status(200))
    /\ all_results' = Put(all_results, Name, <<>>)
    /\ NextEngine
    /\ UNCHANGED <<check_alive, page_results, task, parsed, probe>>
    /\ UNCHANGED <<scanVars, redirVars, poolVars>>

\* response.status_code != 200: log a warning and `continue`
EngineNot200 ==
    /\ cpc = "fetch"
    /\ engine_idx <= Len(search_engines)
    /\ IsActive(Name)
    /\ \E s \in EngineStatuses \ {200} : fetched' = Put(fetched, Name, Status(s))
    /\ NextEngine
    /\ UNCHANGED <<check_alive, all_results, page_results, task, parsed, probe>>
    /\ UNCHANGED <<scanVars, redirVars, poolVars>>

\* status 200, parsed, and no liveness check (check_alive unset or no result):
\* results.extend(page_results); all_results[name] = results
EngineStore ==
    /\ cpc = "fetch"
    /\ engine_idx <= Len(search_engines)
    /\ IsActive(Name)
    /\ \E n \in 0..MaxRecords :
          LET page == Parser(Name, n) IN
          /\ ~(check_alive /\ page # <<>>)
          /\ parsed' = Put(parsed, Name, page)
          /\ page_results' = page
          /\ all_results' = Put(all_results, Name, <<>> \o page)
    /\ fetched' = Put(fetched, Name, Status(200))
    /\ probe' = EmptyDict
    /\ NextEngine
    /\ UNCHANGED <<check_alive, task>>
    /\ UNCHANGED <<scanVars, redirVars, poolVars>>

\* status 200, parsed, check_alive and page_results: every record is
\* submitted to a new ThreadPoolExecutor
EngineSubmit ==
    /\ cpc = "fetch"
    /\ engine_idx <= Len(search_engines)
    /\ IsActive(Name)
    /\ check_alive
    /\ \E n \in 1..MaxRecords :
          LET page == Parser(Name, n) IN
          /\ parsed' = Put(parsed, Name, page)
          /\ page_results' = page
          /\ task' = [i \in 1..n |-> "queued"]
    /\ fetched' = Put(fetched, Name, Status(200))
    /\ probe' = EmptyDict
    /\ cpc' = "probing"
    /\ UNCHANGED <<check_alive, engine_idx, all_results>>
    /\ UNCHANGED <<scanVars, redirVars, poolVars>>

\* a worker thread takes the oldest queued work item; the pool never has
\* more than max_workers threads
ProbeStart ==
    /\ cpc = "probing"
    /\ Queued # {}
    /\ Cardinality(Running) < max_workers
    /\ LET i == CHOOSE q \in Queued : \A o \in Queued : q <= o
       IN task' = [task EXCEPT ![i] = "running"]
    /\ UNCHANGED <<cpc, check_alive, engine_idx, all_results, page_results,
                   fetched, parsed, probe>>
    /\ UNCHANGED <<scanVars, redirVars, poolVars>>

\* a running _check_single(result) ends: the record gets its "alive" key
ProbeFinish(i) ==
    /\ cpc = "probing"
    /\ i \in Running
    /\ \E outcome \in ProbeOutcomes(page_results[i].url) :
          /\ page_results' = [page_results EXCEPT
                                 ![i] = _check_single(page_results[i], outcome)]
          /\ probe' = Put(probe, i, outcome)
    /\ task' = [task EXCEPT ![i] = "done"]
    /\ UNCHANGED <<cpc, check_alive, engine_idx, all_results, fetched, parsed>>
    /\ UNCHANGED <<scanVars, redirVars, poolVars>>

\* as_completed() has yielded every future and the `with` block is left:
\* results.extend(page_results); all_results[name] = results
PoolJoin ==
    /\ cpc = "probing"
    /\ \A i \in DOMAIN task : task[i] = "done"
    /\ all_results' = Put(all_results, Name, <<>> \o page_results)
    /\ task' = <<>>
    /\ NextEngine
    /\ UNCHANGED <<check_alive, page_results, fetched, parsed, probe>>
    /\ UNCHANGED <<scanVars, redirVars, poolVars>>

\* the loop is over: return all_results (export_as is None)
CrawlReturn ==
    /\ cpc = "fetch"
    /\ engine_idx > Len(search_engines)
    /\ cpc' = "returned"
    /\ UNCHANGED <<check_alive, engine_idx, all_results, page_results, task,
                   fetched, parsed, probe>>
    /\ UNCHANGED <<scanVars, redirVars, poolVars>>

crawl ==
    \/ \E ca \in BOOLEAN : CrawlStart(ca)
    \/ EngineRaises
    \/ EngineNot200
    \/ EngineStore
    \/ EngineSubmit
    \/ ProbeStart
    \/ \E i \in DOMAIN task : ProbeFinish(i)
    \/ PoolJoin
    \/ CrawlReturn

\* no pool has been created
PoolIdle ==
    /\ ppc = "idle"
    /\ n_records = 0
    /\ submitted = 0
    /\ work_queue = 0
    /\ threads = 0
    /\ busy = 0
    /\ done = 0

CrawlInit ==
    /\ PoolIdle
    /\ cpc = "idle"
    /\ check_alive = FALSE
    /\ engine_idx = 1
    /\ all_results = EmptyDict
    /\ page_results = <<>>
    /\ task = <<>>
    /\ fetched = EmptyDict
    /\ parsed = EmptyDict
    /\ probe = EmptyDict

ScanIdle ==
    /\ apc = "idle"
    /\ detail = FALSE
    /\ report = EmptyDict
    /\ resp = EmptyDict
    /\ calls = 0
    /\ trace = <<>>
    /\ returned = <<>>

RedirIdle ==
    /\ rpc = "idle"
    /\ seen = {}
    /\ current = ""
    /\ loc = <<>>
    /\ hops = 0
    /\ passes = 0
    /\ requests = 0

Init == CrawlInit /\ ScanIdle /\ RedirIdle

Next == crawl

Spec == Init /\ [][Next]_vars

-----------------------------------------------------------------------------
(* Claims about Nightcrawler.crawl, checked under Spec *)

\* the engine's search request or its parser raised, or it answered a status
\* outside 2xx
EngineFailed(e) ==
    /\ e \in DOMAIN fetched
    /\ \/ fetched[e].kind = "exception"
       \/ fetched[e].status_code < 200
       \/ fetched[e].status_code > 299
       \/ (fetched[e].status_code = 200 /\ e \notin DOMAIN parsed)

\* a record without its "alive" key
Strip(rec) == [k \in DOMAIN rec \ {"alive"} |-> rec[k]]

\* C1: the CrawlResult crawl() returns has exactly one key per active engine,
\* and an engine that failed (non-2xx status or exception) maps to the empty
\* sequence: its key is never missing.
C1_OneKeyPerActiveEngine ==
    cpc = "returned" =>
        /\ DOMAIN all_results = ActiveEngines
        /\ \A e \in ActiveEngines : EngineFailed(e) => all_results[e] = <<>>

\* C3: a failure of one engine never leaves crawl() and never keeps another
\* active engine from being fetched and parsed; with engine A giving 2 parsed
\* results and engine B answering HTTP 500, crawl() returns {A: [2 records],
\* B: []}, whichever of the two comes first.
C3_EngineIsolation ==
    cpc = "returned" =>
        /\ DOMAIN fetched = ActiveEngines
        /\ \A A \in ActiveEngines : \A B \in ActiveEngines \ {A} :
              ( /\ A \in DOMAIN parsed
                /\ Len(parsed[A]) = 2
                /\ fetched[B] = Status(500) )
              => /\ DOMAIN all_results = {A, B}
                 /\ Len(all_results[A]) = 2
                 /\ \A i \in 1..2 : Strip(all_results[A][i]) = parsed[A][i]
                 /\ all_results[B] = <<>>

\* C6: when a liveness check of N extracted records has finished, whatever
\* the order in which the probes ran and completed, the stored result list
\* has exactly N records, every extracted record appears in it exactly once,
\* and every record has "alive" set to a boolean.
C6_EveryRecordOnceWithAlive ==
    \A e \in DOMAIN all_results :
        (check_alive /\ e \in DOMAIN parsed /\ parsed[e] # <<>>) =>
            LET out == all_results[e]
                N == Len(parsed[e])
            IN /\ Len(out) = N
               /\ \E p \in Permutations(1..N) :
                     \A i \in 1..N : Strip(out[i]) = parsed[e][p[i]]
               /\ \A i \in 1..N : /\ "alive" \in DOMAIN out[i]
                                  /\ out[i].alive \in BOOLEAN

\* C6 witness: crawl() has returned the stored outcome of a liveness check
\* of at least two records, one of them alive and one dead.
C6_Witness ==
    /\ cpc = "returned"
    /\ check_alive
    /\ \E e \in DOMAIN all_results :
          /\ Len(all_results[e]) >= 2
          /\ e \in DOMAIN parsed
          /\ \E i, j \in 1..Len(all_results[e]) :
                all_results[e][i].alive /\ ~all_results[e][j].alive

\* C8: a probed record is alive if and only if its GET completed with a
\* status code strictly below 500; an exception or a status >= 500 marks it
\* dead.
C8_AliveIffStatusBelow500 ==
    \A i \in DOMAIN probe :
        /\ "alive" \in DOMAIN page_results[i]
        /\ page_results[i].alive =
              (probe[i].kind = "response" /\ probe[i].status_code < 500)

\* C8 witness: one record answered 404 and is alive, another answered 503 and
\* is dead, a third raised and is dead.
C8_Witness ==
    \E i, j, k \in DOMAIN probe :
        /\ probe[i] = Status(404) /\ page_results[i].alive
        /\ probe[j] = Status(503) /\ ~page_results[j].alive
        /\ probe[k] = Raised /\ ~page_results[k].alive

-----------------------------------------------------------------------------
(* Typhonn *)

\* analyze() calls made on one scanner
MaxCalls == 2

\* self.url, after _normalize
url == [host |-> "target.onion", path |-> 0]

\* __init__: self.report = {"url", "timestamp", "detected_issues": {}, "risk_score": 0}
InitialReport ==
    [url |-> url, timestamp |-> "ctime", detected_issues |-> EmptyDict,
     risk_score |-> 0]

\* self.report["detected_issues"][cat] = issues
PutIssues(rep, cat, issues) ==
    [rep EXCEPT !.detected_issues = Put(rep.detected_issues, cat, issues)]

\* The responses the target answers the first GET with: the names of the
\* response headers, the cookies, and the meta, form and script elements of
\* the parsed page.  A script is the set of the patterns its text contains.
HeaderSets ==
    { {},
      {"Server", "X-Powered-By"},
      {"Strict-Transport-Security", "Content-Security-Policy", "X-Frame-Options"} }

CookieJars ==
    { <<>>,
      <<[name |-> "sid", secure |-> FALSE, HttpOnly |-> FALSE],
        [name |-> "pref", secure |-> TRUE, HttpOnly |-> FALSE]>> }

Soups ==
    { [meta |-> <<>>, form |-> <<>>, script |-> <<>>],
      [meta |-> <<[name |-> "generator", content |-> "wp"],
                  [name |-> "viewport", content |-> "w"]>>,
       form |-> <<[action |-> FALSE, csrf |-> FALSE],
                  [action |-> TRUE, csrf |-> TRUE]>>,
       script |-> <<{"eval(", "atob(x)"}, {}, {"new Function"}>>] }

Responses ==
    { [headers |-> h, cookies |-> c, soup |-> s] :
         h \in HeaderSets, c \in CookieJars, s \in Soups }

\* the texts of the exceptions session.get raises
FetchErrors == {"timeout", "refused"}

\* the concatenation of f[1], ..., f[n]
RECURSIVE Flatten(_, _)
Flatten(f, n) == IF n = 0 THEN <<>> ELSE Flatten(f, n - 1) \o f[n]

\* _analyze_headers
_analyze_headers(rep, r) ==
    LET headers == r.headers
        issues ==
            (IF "Server" \in headers THEN <<"Server info leaked">> ELSE <<>>)
         \o (IF "X-Powered-By" \in headers THEN <<"Tech stack leaked">> ELSE <<>>)
         \o (IF "Strict-Transport-Security" \notin headers
                THEN <<"Missing HSTS header">> ELSE <<>>)
         \o (IF "Content-Security-Policy" \notin headers
                THEN <<"Missing CSP header">> ELSE <<>>)
         \o (IF "X-Frame-Options" \notin headers
                THEN <<"Missing X-Frame-Options header">> ELSE <<>>)
    IN PutIssues(rep, "headers", issues)

\* _analyze_ssl: the issuer and expiry of the certificate, or, when the
\* connection or the handshake raises, one "SSL check failed" finding
_analyze_ssl(rep, tls_ok) ==
    IF tls_ok
    THEN Put(Put(rep, "ssl_issuer", "issuer"), "ssl_expiry", "notAfter")
    ELSE PutIssues(rep, "ssl", <<"SSL check failed">>)

\* _analyze_cookies
_analyze_cookies(rep, r) ==
    LET per == [i \in 1..Len(r.cookies) |->
                   (IF ~r.cookies[i].secure
                       THEN <<"missing Secure flag">> ELSE <<>>)
                \o (IF ~r.cookies[i].HttpOnly
                       THEN <<"missing HttpOnly">> ELSE <<>>)]
    IN PutIssues(rep, "cookies", Flatten(per, Len(r.cookies)))

\* _analyze_meta
_analyze_meta(rep, soup) ==
    LET per == [i \in 1..Len(soup.meta) |->
                   IF soup.meta[i].name \in {"generator", "author", "powered-by"}
                   THEN <<soup.meta[i].name>> ELSE <<>>]
    IN PutIssues(rep, "meta", Flatten(per, Len(soup.meta)))

\* _analyze_forms
_analyze_forms(rep, soup) ==
    LET per == [i \in 1..Len(soup.form) |->
                   (IF ~soup.form[i].action
                       THEN <<"Form with no action attribute">> ELSE <<>>)
                \o (IF ~soup.form[i].csrf
                       THEN <<"Possible missing CSRF token">> ELSE <<>>)]
    IN PutIssues(rep, "forms", Flatten(per, Len(soup.form)))

\* _analyze_scripts
_analyze_scripts(rep, soup) ==
    LET per == [i \in 1..Len(soup.script) |->
                   (IF soup.script[i] \cap {"eval(", "setTimeout(", "new Function"} # {}
                       THEN <<"Suspicious JavaScript function used">> ELSE <<>>)
                \o (IF "atob(x)" \in soup.script[i]
                       THEN <<"Base64 obfuscation pattern detected">> ELSE <<>>)]
    IN PutIssues(rep, "scripts", Flatten(per, Len(soup.script)))

\* sum of len(issues) * 5 over the categories in cats
RECURSIVE WeightedTotal(_, _)
WeightedTotal(issues, cats) ==
    IF cats = {} THEN 0
    ELSE LET cat == CHOOSE c \in cats : TRUE
         IN Len(issues[cat]) * 5 + WeightedTotal(issues, cats \ {cat})

Min(a, b) == IF a < b THEN a ELSE b

\* The mutant of _calculate_risk: the thresholds compared with >=.
_calculate_risk_ge(rep) ==
    LET total == WeightedTotal(rep.detected_issues, DOMAIN rep.detected_issues)
    IN Put(Put(rep, "risk_score", Min(total, 100)), "threat_level",
           IF total >= 75 THEN "CRITICAL"
           ELSE IF total >= 40 THEN "HIGH"
           ELSE IF total >= 20 THEN "MEDIUM"
           ELSE "LOW")

\* _calculate_risk
_calculate_risk(rep) ==
    LET total == WeightedTotal(rep.detected_issues, DOMAIN rep.detected_issues)
    IN Put(Put(rep, "risk_score", Min(total, 100)), "threat_level",
           IF total > 75 THEN "CRITICAL"
           ELSE IF total > 40 THEN "HIGH"
           ELSE IF total > 20 THEN "MEDIUM"
           ELSE "LOW")

\* the attributes class Typhonn defines for analyze() to call
TyphonnMethods ==
    {"_normalize", "analyze", "_analyze_headers", "_analyze_ssl",
     "_analyze_cookies", "_analyze_meta", "_analyze_forms", "_analyze_scripts",
     "_check_redirect_behavior", "_detect_hidden_paths", "_detect_honeypot",
     "_calculate_risk"}

\* a pass of analyze() has run: the next statement is reached
Ran(pass, next) ==
    /\ trace' = Append(trace, pass)
    /\ apc' = next

\* analyze() is called and session.get raises: the error text is written
\* into self.report, and self.report is returned
AnalyzeFetchFails ==
    /\ apc = "idle"
    /\ calls < MaxCalls
    /\ calls' = calls + 1
    /\ \E e \in FetchErrors :
          /\ report' = Put(report, "error", <<"Failed to fetch page", e>>)
          /\ returned' = Append(returned, [kind |-> "return", fetch |-> "failed",
                                           target |-> [error |-> e],
                                           trace |-> <<>>, report |-> report'])
    /\ trace' = <<>>
    /\ UNCHANGED <<apc, detail, resp>>
    /\ UNCHANGED <<crawlVars, redirVars>>

\* analyze() is called and the page is fetched and parsed
AnalyzeFetch ==
    /\ apc = "idle"
    /\ calls < MaxCalls
    /\ calls' = calls + 1
    /\ \E r \in Responses : resp' = r
    /\ trace' = <<>>
    /\ apc' = "headers"
    /\ UNCHANGED <<detail, report, returned>>
    /\ UNCHANGED <<crawlVars, redirVars>>

AnalyzeHeaders ==
    /\ apc = "headers"
    /\ report' = _analyze_headers(report, resp)
    /\ Ran("headers", "ssl")
    /\ UNCHANGED <<detail, resp, calls, returned>>
    /\ UNCHANGED <<crawlVars, redirVars>>

AnalyzeSsl ==
    /\ apc = "ssl"
    /\ \E tls_ok \in BOOLEAN :
          /\ report' = _analyze_ssl(report, tls_ok)
          /\ resp' = Put(resp, "tls_ok", tls_ok)
    /\ Ran("ssl", "cookies")
    /\ UNCHANGED <<detail, calls, returned>>
    /\ UNCHANGED <<crawlVars, redirVars>>

AnalyzeCookies ==
    /\ apc = "cookies"
    /\ report' = _analyze_cookies(report, resp)
    /\ Ran("cookies", "meta")
    /\ UNCHANGED <<detail, resp, calls, returned>>
    /\ UNCHANGED <<crawlVars, redirVars>>

AnalyzeMeta ==
    /\ apc = "meta"
    /\ report' = _analyze_meta(report, resp.soup)
    /\ Ran("meta", "forms")
    /\ UNCHANGED <<detail, resp, calls, returned>>
    /\ UNCHANGED <<crawlVars, redirVars>>

AnalyzeForms ==
    /\ apc = "forms"
    /\ report' = _analyze_forms(report, resp.soup)
    /\ Ran("forms", "scripts")
    /\ UNCHANGED <<detail, resp, calls, returned>>
    /\ UNCHANGED <<crawlVars, redirVars>>

AnalyzeScripts ==
    /\ apc = "scripts"
    /\ report' = _analyze_scripts(report, resp.soup)
    /\ Ran("scripts", "text_content")
    /\ UNCHANGED <<detail, resp, calls, returned>>
    /\ UNCHANGED <<crawlVars, redirVars>>

\* self._analyze_text_content(soup): the class defines no such attribute, the
\* lookup raises AttributeError, and nothing in analyze() catches it.  The
\* statements after it (the detail block, _calculate_risk, the return) are
\* never reached.
AnalyzeTextContent ==
    /\ apc = "text_content"
    /\ "_analyze_text_content" \notin TyphonnMethods
    /\ returned' = Append(returned, [kind |-> "raise", fetch |-> "ok",
                                     target |-> resp,
                                     trace |-> trace, exc |-> "AttributeError"])
    /\ apc' = "idle"
    /\ UNCHANGED <<detail, report, resp, calls, trace>>
    /\ UNCHANGED <<crawlVars, redirVars>>

analyze ==
    \/ AnalyzeFetchFails
    \/ AnalyzeFetch
    \/ AnalyzeHeaders
    \/ AnalyzeSsl
    \/ AnalyzeCookies
    \/ AnalyzeMeta
    \/ AnalyzeForms
    \/ AnalyzeScripts
    \/ AnalyzeTextContent

\* Typhonn(url, detail=d): the scanner after __init__
ScanInit ==
    /\ apc = "idle"
    /\ detail \in BOOLEAN
    /\ report = InitialReport
    /\ resp = EmptyDict
    /\ calls = 0
    /\ trace = <<>>
    /\ returned = <<>>

CrawlIdle == CrawlInit

\* crawl() not called, and nothing said about the pool
CrawlLocalsIdle ==
    /\ cpc = "idle"
    /\ check_alive = FALSE
    /\ engine_idx = 1
    /\ all_results = EmptyDict
    /\ page_results = <<>>
    /\ task = <<>>
    /\ fetched = EmptyDict
    /\ parsed = EmptyDict
    /\ probe = EmptyDict

InitAnalyze == CrawlIdle /\ ScanInit /\ RedirIdle

NextAnalyze == analyze

SpecAnalyze == InitAnalyze /\ [][NextAnalyze]_vars

-----------------------------------------------------------------------------
(* Claims about Typhonn.analyze, checked under SpecAnalyze *)

ThreatLevels == {"LOW", "MEDIUM", "HIGH", "CRITICAL"}

MandatoryPasses == <<"headers", "ssl", "cookies", "meta", "forms", "scripts">>
DeepPasses == <<"redirect", "hidden_paths", "honeypot">>

\* the detected_issues category each pass writes
PassCategories(ps) == {ps[i] : i \in 1..Len(ps)}

\* C2: an analyze() whose first fetch succeeded returns a report with
\* risk_score in 0..100 and threat_level one of the four levels, and raises
\* nothing, whatever the page, the detail flag and the outcome of each pass.
C2_CompleteReportNeverRaises ==
    \A k \in 1..Len(returned) :
        returned[k].fetch = "ok" =>
            /\ returned[k].kind = "return"
            /\ returned[k].report.risk_score \in 0..100
            /\ "threat_level" \in DOMAIN returned[k].report
            /\ returned[k].report.threat_level \in ThreatLevels

\* C4: an analyze() whose first fetch raised (also one that follows earlier
\* analyze() calls on the scanner) returns a report with a non-empty error,
\* has run no pass, and its report has no category with findings.
C4_FetchFailureReportHasNoFindings ==
    \A k \in 1..Len(returned) :
        returned[k].fetch = "failed" =>
            /\ returned[k].kind = "return"
            /\ "error" \in DOMAIN returned[k].report
            /\ returned[k].report.error # <<>>
            /\ returned[k].trace = <<>>
            /\ \A cat \in DOMAIN returned[k].report.detected_issues :
                  returned[k].report.detected_issues[cat] = <<>>

\* C5: a report is created once per analyze() call and does not change after
\* the call has returned: every report an earlier call returned (the object
\* it returned is self.report) still has the value it was returned with, and
\* a returned report holds no error and no finding that its own call did not
\* write.
C5_ReturnedReportImmutable ==
    \A k \in 1..Len(returned) :
        returned[k].kind = "return" =>
            /\ report = returned[k].report
            /\ DOMAIN returned[k].report.detected_issues
                  \subseteq PassCategories(returned[k].trace)
            /\ ("error" \in DOMAIN returned[k].report) = (returned[k].fetch = "failed")

\* C9: in an analyze() whose fetch succeeded the mandatory passes run in the
\* order headers, TLS, cookies, meta, forms, scripts; the deep passes run
\* only with detail set and only after all mandatory passes; and the risk
\* aggregation runs after every pass that runs, so that the run ends with
\* the six mandatory passes, the three deep passes when detail is set, and
\* then the aggregation.
C9_PassOrderThenAggregation ==
    LET full == MandatoryPasses \o (IF detail THEN DeepPasses ELSE <<>>)
                                \o <<"risk">>
    IN /\ Len(trace) <= Len(full)
       /\ \A i \in 1..Len(trace) : trace[i] = full[i]
       /\ \A k \in 1..Len(returned) :
             returned[k].fetch = "ok" => returned[k].trace = full

\* C11: two analyze() calls on one scanner with detail=false, against a
\* target that answers both in the same way, give two reports whose findings
\* are the same: the same categories, the same findings in the same order.
C11_AnalyzeIdempotent ==
    ~detail =>
        \A j \in 1..Len(returned) : \A k \in (j + 1)..Len(returned) :
            ( /\ returned[j].fetch = returned[k].fetch
              /\ returned[j].target = returned[k].target )
            => /\ returned[j].kind = "return"
               /\ returned[k].kind = "return"
               /\ returned[j].report.detected_issues
                     = returned[k].report.detected_issues

-----------------------------------------------------------------------------
(* Typhonn._calculate_risk, applied to reports of every size *)

\* most findings in one category
MaxFindings == 7

RiskCategories == {"headers", "cookies", "scripts"}

\* n findings
Findings(n) == [i \in 1..n |-> "finding"]

\* the detected_issues dicts the aggregation is applied to
RiskInputs == [RiskCategories -> {Findings(n) : n \in 0..MaxFindings}]

InitRisk ==
    /\ CrawlIdle
    /\ RedirIdle
    /\ apc = "risk"
    /\ detail = FALSE
    /\ \E d \in RiskInputs : report = [InitialReport EXCEPT !.detected_issues = d]
    /\ resp = EmptyDict
    /\ calls = 0
    /\ trace = <<>>
    /\ returned = <<>>

\* self._calculate_risk()
CalculateRisk ==
    /\ apc = "risk"
    /\ report' = _calculate_risk(report)
    /\ Ran("risk", "scored")
    /\ UNCHANGED <<detail, resp, calls, returned>>
    /\ UNCHANGED <<crawlVars, redirVars>>

NextRisk == CalculateRisk

SpecRisk == InitRisk /\ [][NextRisk]_vars

\* number of findings of a detected_issues dict over RiskCategories
FindingCount(d) == Len(d["headers"]) + Len(d["cookies"]) + Len(d["scripts"])

\* C7: the weighted total is 5 x the number of findings; risk_score is the
\* total clamped to 100; threat_level is decided on the unclamped total with
\* strict comparisons (> 75 CRITICAL, > 40 HIGH, > 20 MEDIUM, else LOW); and
\* no report with fewer findings has a higher risk_score.
C7_RiskAggregation ==
    apc = "scored" =>
        LET total == 5 * FindingCount(report.detected_issues)
        IN /\ report.risk_score = (IF total <= 100 THEN total ELSE 100)
           /\ report.threat_level =
                 (CASE total >= 76 -> "CRITICAL"
                    [] total >= 41 /\ total <= 75 -> "HIGH"
                    [] total >= 21 /\ total <= 40 -> "MEDIUM"
                    [] total <= 20 -> "LOW")
           /\ \A d \in RiskInputs :
                 FindingCount(d) <= FindingCount(report.detected_issues) =>
                    _calculate_risk([InitialReport EXCEPT !.detected_issues = d]).risk_score
                       <= report.risk_score

\* C7 witness: {headers: 3, cookies: 2} has been scored 25, MEDIUM.
C7_Witness ==
    /\ apc = "scored"
    /\ Len(report.detected_issues["headers"]) = 3
    /\ Len(report.detected_issues["cookies"]) = 2
    /\ Len(report.detected_issues["scripts"]) = 0
    /\ report.risk_score = 25
    /\ report.threat_level = "MEDIUM"

-----------------------------------------------------------------------------
(* Typhonn._check_redirect_behavior *)

\* paths the target redirects to
NumPaths == 5

\* calls of the pass on one scanner
MaxPasses == 2

\* for _ in range(10)
RedirectHops == 10

\* res.headers.get("Location"): None, the empty string, an absolute url on
\* another host, or a path relative to the url requested
NoLocation == <<>>
EmptyLocation == <<"">>
Locations == {<<kind, k>> : kind \in {"abs", "rel"}, k \in 1..NumPaths}

\* urljoin(current, loc)
urljoin(base, l) ==
    IF l[1] = "abs" THEN [host |-> "other.onion", path |-> l[2]]
    ELSE [host |-> base.host, path |-> l[2]]

\* if not loc or loc in seen: break
RedirectBreaks(l, s) == l \in {NoLocation, EmptyLocation} \/ l \in s

\* The mutant of RedirectVerdict: the comparison off by one.
RedirectVerdictGe(rep, s) ==
    IF Cardinality(s) >= 5
    THEN PutIssues(rep, "redirect", <<"Multiple chained redirects (possible trap)">>)
    ELSE rep

\* if len(seen) > 5: self.report["detected_issues"]["redirect"] = [...]
RedirectVerdict(rep, s) ==
    IF Cardinality(s) > 5
    THEN PutIssues(rep, "redirect", <<"Multiple chained redirects (possible trap)">>)
    ELSE rep

\* _check_redirect_behavior() is called: seen = set(); current = self.url
RedirectBegin ==
    /\ rpc \in {"idle", "done", "failed"}
    /\ passes < MaxPasses
    /\ passes' = passes + 1
    /\ rpc' = "loop"
    /\ seen' = {}
    /\ current' = url
    /\ loc' = NoLocation
    /\ hops' = 0
    /\ requests' = 0
    /\ UNCHANGED <<crawlVars, scanVars>>

\* session.get(current, allow_redirects=False) raises: except Exception: pass
RedirectRaises ==
    /\ rpc = "loop"
    /\ hops < RedirectHops
    /\ requests' = requests + 1
    /\ rpc' = "failed"
    /\ UNCHANGED <<seen, current, loc, hops, passes>>
    /\ UNCHANGED <<crawlVars, scanVars>>

\* the response carries a Location not seen before: seen.add(loc);
\* current = urljoin(current, loc)
RedirectFollow ==
    /\ rpc = "loop"
    /\ hops < RedirectHops
    /\ requests' = requests + 1
    /\ \E l \in Locations \cup {NoLocation, EmptyLocation} :
          /\ ~RedirectBreaks(l, seen)
          /\ loc' = l
          /\ seen' = seen \cup {l}
          /\ current' = urljoin(current, l)
    /\ hops' = hops + 1
    /\ UNCHANGED <<rpc, passes>>
    /\ UNCHANGED <<crawlVars, scanVars>>

\* the response carries no Location or one seen before: break, and then the
\* `if len(seen) > 5`
RedirectBreak ==
    /\ rpc = "loop"
    /\ hops < RedirectHops
    /\ requests' = requests + 1
    /\ \E l \in Locations \cup {NoLocation, EmptyLocation} :
          /\ RedirectBreaks(l, seen)
          /\ loc' = l
    /\ report' = RedirectVerdict(report, seen)
    /\ rpc' = "done"
    /\ UNCHANGED <<seen, current, hops, passes>>
    /\ UNCHANGED <<crawlVars, apc, detail, resp, calls, trace, returned>>

\* the loop has run RedirectHops times: the `if len(seen) > 5`
RedirectExhausted ==
    /\ rpc = "loop"
    /\ hops = RedirectHops
    /\ report' = RedirectVerdict(report, seen)
    /\ rpc' = "done"
    /\ UNCHANGED <<seen, current, loc, hops, passes, requests>>
    /\ UNCHANGED <<crawlVars, apc, detail, resp, calls, trace, returned>>

\* Typhonn(url, detail=True) after __init__, the pass not yet called
InitRedirect ==
    /\ CrawlIdle
    /\ RedirIdle
    /\ apc = "idle"
    /\ detail = TRUE
    /\ report = InitialReport
    /\ resp = EmptyDict
    /\ calls = 0
    /\ trace = <<>>
    /\ returned = <<>>

NextRedirect ==
    \/ RedirectBegin
    \/ RedirectRaises
    \/ RedirectFollow
    \/ RedirectBreak
    \/ RedirectExhausted

SpecRedirect == InitRedirect /\ [][NextRedirect]_vars

TrapFinding == <<"Multiple chained redirects (possible trap)">>

\* C10: the redirect pass issues at most 10 requests, stops at the first
\* response with no Location or with a Location already seen, and when it
\* has ended the report holds exactly one "possible trap" finding under
\* "redirect" if and only if more than 5 distinct targets were seen.
C10_TrapFindingIffMoreThanFive ==
    /\ requests <= 10
    /\ rpc \in {"done", "failed"} =>
          ( ( /\ "redirect" \in DOMAIN report.detected_issues
              /\ report.detected_issues["redirect"] = TrapFinding )
            <=> Cardinality(seen) > 5 )

\* C10, amended: the pass issues at most 10 requests; after a response it
\* goes on exactly when the response carries a Location not seen before; a
\* pass that ends without a request raising writes exactly one "possible
\* trap" finding under "redirect" if more than 5 distinct Locations were seen
\* and writes nothing otherwise; a pass ended by a request that raises
\* writes nothing, however many Locations were seen.
C10_TrapFindingUnlessRaised ==
    /\ [](requests <= 10)
    /\ [][ (requests' = requests + 1 /\ rpc' # "failed") =>
              ( rpc' = "loop" <=>
                   (loc' \notin {NoLocation, EmptyLocation} /\ loc' \notin seen) ) ]_vars
    /\ [][ (rpc = "loop" /\ rpc' = "done") =>
              report' = (IF Cardinality(seen') > 5
                         THEN PutIssues(report, "redirect", TrapFinding)
                         ELSE report) ]_vars
    /\ [][ (rpc = "loop" /\ rpc' = "failed") => report' = report ]_vars

\* C10 witness: a chain of 6 distinct Locations has stabilized (the seventh
\* response carries no Location) and the one finding is in the report.
C10_Witness ==
    /\ rpc = "done"
    /\ Cardinality(seen) = 6
    /\ requests = 7
    /\ loc = NoLocation
    /\ "redirect" \in DOMAIN report.detected_issues
    /\ report.detected_issues["redirect"] = TrapFinding

-----------------------------------------------------------------------------
(* The ThreadPoolExecutor of crawl() with result lists longer than          *)
(* max_workers.  The work items are alike to the executor, so the pool is   *)
(* followed through its counters: how many items were submitted, wait in    *)
(* the queue, are being run, and have completed.                            *)

\* longest result list handed to the pool
PoolRecords == 22

\* The mutant of AdjustThreadCount: a thread is started for every submit.
AdjustThreadCountUnbounded(t, b) == {t + 1}

\* executor.submit -> _adjust_thread_count: no thread is started when the
\* pool has max_workers threads; below that one is started, unless the
\* executor counted a worker waiting for work (then it may start none)
AdjustThreadCount(t, b) ==
    IF t >= max_workers THEN {t}
    ELSE IF t > b THEN {t, t + 1}
    ELSE {t + 1}

\* executor.submit(_check_single, r), for the next r of page_results; after
\* the last one the dict comprehension is over and as_completed() is entered
PoolSubmit ==
    /\ ppc = "submit"
    /\ submitted < n_records
    /\ submitted' = submitted + 1
    /\ work_queue' = work_queue + 1
    /\ threads' \in AdjustThreadCount(threads, busy)
    /\ ppc' = IF submitted' = n_records THEN "as_completed" ELSE "submit"
    /\ UNCHANGED <<n_records, busy, done>>
    /\ UNCHANGED <<cpc, check_alive, engine_idx, all_results, page_results, task,
                   fetched, parsed, probe>>
    /\ UNCHANGED <<scanVars, redirVars>>

\* a worker thread that is not running anything takes the oldest work item
\* and calls _check_single
WorkerTake ==
    /\ work_queue > 0
    /\ busy < threads
    /\ work_queue' = work_queue - 1
    /\ busy' = busy + 1
    /\ UNCHANGED <<ppc, n_records, submitted, threads, done>>
    /\ UNCHANGED <<cpc, check_alive, engine_idx, all_results, page_results, task,
                   fetched, parsed, probe>>
    /\ UNCHANGED <<scanVars, redirVars>>

\* a _check_single ends: is_alive returned, or its request raised or timed
\* out (timeout=10) and it returned False; the future is completed
WorkerFinish ==
    /\ busy > 0
    /\ busy' = busy - 1
    /\ done' = done + 1
    /\ UNCHANGED <<ppc, n_records, submitted, work_queue, threads>>
    /\ UNCHANGED <<cpc, check_alive, engine_idx, all_results, page_results, task,
                   fetched, parsed, probe>>
    /\ UNCHANGED <<scanVars, redirVars>>

\* as_completed() has yielded every future and the `with` block is left
\* (shutdown(wait=True))
PoolExit ==
    /\ ppc = "as_completed"
    /\ done = n_records
    /\ ppc' = "joined"
    /\ UNCHANGED <<n_records, submitted, work_queue, threads, busy, done>>
    /\ UNCHANGED <<cpc, check_alive, engine_idx, all_results, page_results, task,
                   fetched, parsed, probe>>
    /\ UNCHANGED <<scanVars, redirVars>>

\* `with ThreadPoolExecutor(max_workers=20) as executor` is entered with a
\* non-empty page_results
InitPool ==
    /\ CrawlLocalsIdle
    /\ ScanIdle
    /\ RedirIdle
    /\ ppc = "submit"
    /\ n_records \in 1..PoolRecords
    /\ submitted = 0
    /\ work_queue = 0
    /\ threads = 0
    /\ busy = 0
    /\ done = 0

NextPool ==
    \/ PoolSubmit
    \/ WorkerTake
    \/ WorkerFinish
    \/ PoolExit

\* The threads are scheduled by the operating system, and every request of
\* a probe ends (it returns, raises or times out): no enabled step is
\* put off for ever.
SpecPool ==
    /\ InitPool
    /\ [][NextPool]_vars
    /\ WF_vars(PoolSubmit)
    /\ WF_vars(WorkerTake)
    /\ WF_vars(WorkerFinish)
    /\ WF_vars(PoolExit)

\* C12: whatever the number of records, at most 20 probes are in flight at
\* any moment; a probe that is not in flight and not done waits in the
\* queue; every queued probe is run in the end, and the check ends, with
\* every probe completed.
C12_BoundedPool ==
    /\ [](busy <= 20)
    /\ [](work_queue + busy + done = submitted)
    /\ [](ppc = "joined" => (done = n_records /\ work_queue = 0 /\ busy = 0))
    /\ (work_queue > 0) ~> (work_queue = 0)
    /\ <>(ppc = "joined")

\* C12 witness: 20 probes are in flight and others wait in the queue.
C12_Witness ==
    /\ busy = 20
    /\ work_queue > 0
    /\ n_records > 20

=============================================================================
